---- MODULE Spec2Model ----
(***************************************************************************)
(* asynkaf/_core: the handoff queue (queue.c) and the consumer object with *)
(* its poller thread (consumer.c), as a state machine.                     *)
(*                                                                         *)
(*   SpecQ  the queue alone: message_queue_init, two producer threads and  *)
(*          two consumer threads calling message_queue_push and            *)
(*          message_queue_pop, message_queue_destroy.                      *)
(*   Spec   the consumer object: create_consumer, Consumer_init,           *)
(*          poller_thread_func, callers of message_queue_pop on the        *)
(*          object's queue, Consumer_dealloc.                              *)
(*   FairSpecQ, FairSpecQUsers: SpecQ under a fair scheduler, for the      *)
(*          properties that say something happens in the end.              *)
(*                                                                         *)
(* consumer.c exports no method that pops: the callers of Spec stand for   *)
(* the binding layer calling message_queue_pop on a live object's queue.   *)
(***************************************************************************)
EXTENDS Integers, Sequences, FiniteSets, TLC

\* Number of message records the broker (Spec) or the producers (SpecQ) supply.
MaxMsgs == 3

\* pollsAfterClear counts up to this many calls and stays there.
PollCountCap == 2

NULL == 0
\* The content of memory no statement has written yet.
UNINIT == -1

Msgs == 1..MaxMsgs
\* Addresses malloc can return for a MessageNode.
NodeIds == 1..MaxMsgs

Producers == {"p1", "p2"}
Poppers == {"c1", "c2"}
Threads == {"main", "poller"} \cup Producers \cup Poppers
NoThread == "none"

VARIABLES
    \* MessageQueue (queue.h)
    head, tail, size, lock, qprim, waiting,
    \* the heap of MessageNode
    node, allocd,
    \* threads
    pc, arg, new_node, ret,
    \* SpecQ: the messages 1..split are p1's, the others p2's; pushes begun
    split, sent,
    \* ConsumerObject (consumer.c) and Consumer_init's locals
    obj, args, conf, confRes, rk, run_poller, rp_pending, poller_thread, initResult,
    pyerr,
    \* the broker client: the next record it yields, each record's err field
    brokerNext, merr,
    \* history
    pushLog, popLog, recvLog, released, pollsAfterClear,
    \* history: a receive returned a message after line 127 of Consumer_dealloc
    recvAfterClear

queueVars == <<head, tail, size, lock, qprim, waiting, node, allocd>>
threadVars == <<pc, arg, new_node, ret>>
harnessVars == <<split, sent>>
consumerVars ==
    <<obj, args, conf, confRes, rk, run_poller, rp_pending, poller_thread, initResult, pyerr>>
brokerVars == <<brokerNext, merr>>
historyVars == <<pushLog, popLog, recvLog, released, pollsAfterClear, recvAfterClear>>
vars == <<queueVars, threadVars, harnessVars, consumerVars, brokerVars, historyVars>>

----------------------------------------------------------------------------
\* Helpers

IsPrefix(s, t) ==
    /\ Len(s) <= Len(t)
    /\ \A i \in 1..Len(s) : s[i] = t[i]

Range(s) == {s[i] : i \in 1..Len(s)}

\* The subsequence of s of the elements in S.
RECURSIVE Restrict(_, _)
Restrict(s, S) ==
    IF s = <<>> THEN <<>>
    ELSE IF Head(s) \in S THEN <<Head(s)>> \o Restrict(Tail(s), S)
    ELSE Restrict(Tail(s), S)

\* The nodes reached from n by next links, in order (at most k of them).
RECURSIVE Chain(_, _)
Chain(n, k) ==
    IF n \notin NodeIds \/ k = 0 THEN <<>>
    ELSE <<n>> \o Chain(node[n].next, k - 1)

\* The messages of the nodes linked from head, in order.
QueueMsgs ==
    LET c == Chain(head, MaxMsgs + 1)
    IN  [i \in 1..Len(c) |-> node[c[i]].message]

\* malloc: an address that is not allocated.
Malloc == CHOOSE n \in NodeIds \ allocd : \A o \in NodeIds \ allocd : n <= o

\* free: what a freed node holds is indeterminate and is not read again.
FreedNode == [message |-> NULL, next |-> NULL]

\* Where message_queue_push returns to.
PushRet(t) == IF t = "poller" THEN "while" ELSE "idle"

----------------------------------------------------------------------------
\* queue.c

\* message_queue_init
QueueInit ==
    /\ head' = NULL
    /\ tail' = NULL
    /\ size' = 0
    /\ lock' = NoThread
    /\ qprim' = "init"
    /\ waiting' = {}

\* message_queue_push, lines 31-33: the new node. (malloc's result is not
\* tested; there are as many addresses as messages, so it does not fail.)
PushMalloc(t) ==
    /\ pc[t] = "push_malloc"
    /\ allocd /= NodeIds
    /\ new_node' = [new_node EXCEPT ![t] = Malloc]
    /\ allocd' = allocd \cup {Malloc}
    /\ node' = [node EXCEPT ![Malloc] = [message |-> arg[t], next |-> NULL]]
    /\ pc' = [pc EXCEPT ![t] = "push_lock"]
    /\ UNCHANGED <<head, tail, size, lock, qprim, waiting, arg, ret>>
    /\ UNCHANGED <<harnessVars, consumerVars, brokerVars, historyVars>>

\* A pthread_mutex_lock that returns at once, whoever holds the mutex.
PushLockNoWait(t) ==
    /\ pc[t] = "push_lock"
    /\ lock' = t
    /\ pc' = [pc EXCEPT ![t] = "push_link"]
    /\ UNCHANGED <<head, tail, size, qprim, waiting, node, allocd, arg, new_node, ret>>
    /\ UNCHANGED <<harnessVars, consumerVars, brokerVars, historyVars>>

\* message_queue_push, line 36.
PushLock(t) ==
    /\ pc[t] = "push_lock"
    /\ lock = NoThread
    /\ lock' = t
    /\ pc' = [pc EXCEPT ![t] = "push_link"]
    /\ UNCHANGED <<head, tail, size, qprim, waiting, node, allocd, arg, new_node, ret>>
    /\ UNCHANGED <<harnessVars, consumerVars, brokerVars, historyVars>>

\* A push that links the new node before head.
PushLinkAtHead(t) ==
    /\ pc[t] = "push_link"
    /\ node' = [node EXCEPT ![new_node[t]].next = head]
    /\ head' = new_node[t]
    /\ tail' = IF tail /= NULL THEN tail ELSE new_node[t]
    /\ size' = size + 1
    /\ pushLog' = Append(pushLog, node[new_node[t]].message)
    /\ pc' = [pc EXCEPT ![t] = "push_signal"]
    /\ UNCHANGED <<lock, qprim, waiting, allocd, arg, new_node, ret>>
    /\ UNCHANGED <<harnessVars, consumerVars, brokerVars>>
    /\ UNCHANGED <<popLog, recvLog, released, pollsAfterClear, recvAfterClear>>

\* A push with no test of tail: the new node always becomes head and tail.
PushLinkNoTailBranch(t) ==
    /\ pc[t] = "push_link"
    /\ head' = new_node[t]
    /\ tail' = new_node[t]
    /\ size' = size + 1
    /\ pushLog' = Append(pushLog, node[new_node[t]].message)
    /\ pc' = [pc EXCEPT ![t] = "push_signal"]
    /\ UNCHANGED <<node, lock, qprim, waiting, allocd, arg, new_node, ret>>
    /\ UNCHANGED <<harnessVars, consumerVars, brokerVars>>
    /\ UNCHANGED <<popLog, recvLog, released, pollsAfterClear, recvAfterClear>>

\* message_queue_push, lines 39-45.
PushLink(t) ==
    /\ pc[t] = "push_link"
    /\ IF tail /= NULL
       THEN /\ node' = [node EXCEPT ![tail].next = new_node[t]]
            /\ head' = head
       ELSE /\ head' = new_node[t]
            /\ node' = node
    /\ tail' = new_node[t]
    /\ size' = size + 1
    /\ pushLog' = Append(pushLog, node[new_node[t]].message)
    /\ pc' = [pc EXCEPT ![t] = "push_signal"]
    /\ UNCHANGED <<lock, qprim, waiting, allocd, arg, new_node, ret>>
    /\ UNCHANGED <<harnessVars, consumerVars, brokerVars>>
    /\ UNCHANGED <<popLog, recvLog, released, pollsAfterClear, recvAfterClear>>

\* A push that does not signal the condition.
PushNoSignal(t) ==
    /\ pc[t] = "push_signal"
    /\ pc' = [pc EXCEPT ![t] = "push_unlock"]
    /\ UNCHANGED <<head, tail, size, lock, qprim, waiting, node, allocd, arg, new_node, ret>>
    /\ UNCHANGED <<harnessVars, consumerVars, brokerVars, historyVars>>

\* message_queue_push, line 48: pthread_cond_signal unblocks one waiter, if
\* any. (It may unblock more: SpuriousWakeup covers the others.)
PushSignal(t) ==
    /\ pc[t] = "push_signal"
    /\ IF waiting = {}
       THEN /\ pc' = [pc EXCEPT ![t] = "push_unlock"]
            /\ waiting' = waiting
       ELSE \E w \in waiting :
            /\ waiting' = waiting \ {w}
            /\ pc' = [pc EXCEPT ![t] = "push_unlock", ![w] = "pop_relock"]
    /\ UNCHANGED <<head, tail, size, lock, qprim, node, allocd, arg, new_node, ret>>
    /\ UNCHANGED <<harnessVars, consumerVars, brokerVars, historyVars>>

\* message_queue_push, lines 49-50.
PushUnlock(t) ==
    /\ pc[t] = "push_unlock"
    /\ lock' = NoThread
    /\ pc' = [pc EXCEPT ![t] = PushRet(t)]
    /\ arg' = [arg EXCEPT ![t] = NULL]
    /\ new_node' = [new_node EXCEPT ![t] = NULL]
    /\ UNCHANGED <<head, tail, size, qprim, waiting, node, allocd, ret>>
    /\ UNCHANGED <<harnessVars, consumerVars, brokerVars, historyVars>>

\* message_queue_pop, line 62.
PopLock(t) ==
    /\ pc[t] = "pop_lock"
    /\ lock = NoThread
    /\ lock' = t
    /\ pc' = [pc EXCEPT ![t] = "pop_test"]
    /\ UNCHANGED <<head, tail, size, qprim, waiting, node, allocd, arg, new_node, ret>>
    /\ UNCHANGED <<harnessVars, consumerVars, brokerVars, historyVars>>

\* message_queue_pop, lines 64-66: the loop test; pthread_cond_wait releases
\* the mutex and blocks the caller in one step.
PopTest(t) ==
    /\ pc[t] = "pop_test"
    /\ IF head = NULL
       THEN /\ lock' = NoThread
            /\ waiting' = waiting \cup {t}
            /\ pc' = [pc EXCEPT ![t] = "pop_waiting"]
       ELSE /\ pc' = [pc EXCEPT ![t] = "pop_unlink"]
            /\ UNCHANGED <<lock, waiting>>
    /\ UNCHANGED <<head, tail, size, qprim, node, allocd, arg, new_node, ret>>
    /\ UNCHANGED <<harnessVars, consumerVars, brokerVars, historyVars>>

\* pthread_cond_wait may return without a signal (a spurious wakeup).
SpuriousWakeup(t) ==
    /\ pc[t] = "pop_waiting"
    /\ t \in waiting
    /\ waiting' = waiting \ {t}
    /\ pc' = [pc EXCEPT ![t] = "pop_relock"]
    /\ UNCHANGED <<head, tail, size, lock, qprim, node, allocd, arg, new_node, ret>>
    /\ UNCHANGED <<harnessVars, consumerVars, brokerVars, historyVars>>

\* A wait that is not in a loop: the woken caller goes on to the removal.
PopRelockNoRecheck(t) ==
    /\ pc[t] = "pop_relock"
    /\ lock = NoThread
    /\ lock' = t
    /\ pc' = [pc EXCEPT ![t] = "pop_unlink"]
    /\ UNCHANGED <<head, tail, size, qprim, waiting, node, allocd, arg, new_node, ret>>
    /\ UNCHANGED <<harnessVars, consumerVars, brokerVars, historyVars>>

\* message_queue_pop, lines 64-65: pthread_cond_wait returns holding the mutex
\* again, and the loop tests head again.
PopRelock(t) ==
    /\ pc[t] = "pop_relock"
    /\ lock = NoThread
    /\ lock' = t
    /\ pc' = [pc EXCEPT ![t] = "pop_test"]
    /\ UNCHANGED <<head, tail, size, qprim, waiting, node, allocd, arg, new_node, ret>>
    /\ UNCHANGED <<harnessVars, consumerVars, brokerVars, historyVars>>

\* A removal that hands out the head node's message and leaves the node
\* linked.
PopUnlinkKeepsHead(t) ==
    /\ pc[t] = "pop_unlink"
    /\ head \in NodeIds
    /\ arg' = [arg EXCEPT ![t] = node[head].message]
    /\ popLog' = Append(popLog, node[head].message)
    /\ size' = size - 1
    /\ pc' = [pc EXCEPT ![t] = "pop_unlock"]
    /\ UNCHANGED <<head, tail, allocd, node, lock, qprim, waiting, new_node, ret>>
    /\ UNCHANGED <<harnessVars, consumerVars, brokerVars>>
    /\ UNCHANGED <<pushLog, recvLog, released, pollsAfterClear, recvAfterClear>>

\* A removal with no test of the new head: tail keeps pointing at the node
\* that was removed.
PopUnlinkKeepsTail(t) ==
    /\ pc[t] = "pop_unlink"
    /\ head \in NodeIds
    /\ arg' = [arg EXCEPT ![t] = node[head].message]
    /\ head' = node[head].next
    /\ allocd' = allocd \ {head}
    /\ node' = [node EXCEPT ![head] = FreedNode]
    /\ popLog' = Append(popLog, node[head].message)
    /\ size' = size - 1
    /\ pc' = [pc EXCEPT ![t] = "pop_unlock"]
    /\ UNCHANGED <<tail, lock, qprim, waiting, new_node, ret>>
    /\ UNCHANGED <<harnessVars, consumerVars, brokerVars>>
    /\ UNCHANGED <<pushLog, recvLog, released, pollsAfterClear, recvAfterClear>>

\* message_queue_pop, lines 69-76. Reading through a NULL head is undefined;
\* the loop above keeps the code from getting here with one.
PopUnlink(t) ==
    /\ pc[t] = "pop_unlink"
    /\ IF head \in NodeIds
       THEN /\ arg' = [arg EXCEPT ![t] = node[head].message]
            /\ head' = node[head].next
            /\ tail' = IF node[head].next = NULL THEN NULL ELSE tail
            /\ allocd' = allocd \ {head}
            /\ node' = [node EXCEPT ![head] = FreedNode]
            /\ popLog' = Append(popLog, node[head].message)
       ELSE /\ arg' = [arg EXCEPT ![t] = UNINIT]
            /\ popLog' = Append(popLog, UNINIT)
            /\ UNCHANGED <<head, tail, allocd, node>>
    /\ size' = size - 1
    /\ pc' = [pc EXCEPT ![t] = "pop_unlock"]
    /\ UNCHANGED <<lock, qprim, waiting, new_node, ret>>
    /\ UNCHANGED <<harnessVars, consumerVars, brokerVars>>
    /\ UNCHANGED <<pushLog, recvLog, released, pollsAfterClear, recvAfterClear>>

\* message_queue_pop, lines 78-79: the message goes to the caller.
PopUnlock(t) ==
    /\ pc[t] = "pop_unlock"
    /\ lock' = NoThread
    /\ ret' = [ret EXCEPT ![t] = Append(ret[t], arg[t])]
    /\ arg' = [arg EXCEPT ![t] = NULL]
    /\ pc' = [pc EXCEPT ![t] = "idle"]
    /\ UNCHANGED <<head, tail, size, qprim, waiting, node, allocd, new_node>>
    /\ UNCHANGED <<harnessVars, consumerVars, brokerVars, historyVars>>

\* Where message_queue_destroy returns to: Consumer_dealloc, or the queue's
\* own user.
DestroyRet == IF obj = "alloc" THEN "d_free" ELSE "q_done"

\* The outcomes of a statement whose operand was never initialized: it goes
\* on, or the process ends there.
UndefinedStep(from, to) ==
    /\ pc["main"] = from
    /\ \E next \in {to, "crashed"} : pc' = [pc EXCEPT !["main"] = next]
    /\ UNCHANGED <<queueVars, arg, new_node, ret>>
    /\ UNCHANGED <<harnessVars, consumerVars, brokerVars, historyVars>>

\* message_queue_destroy, line 92.
DestroyLock ==
    /\ pc["main"] = "qd_lock"
    /\ qprim = "init"
    /\ lock = NoThread
    /\ lock' = "main"
    /\ pc' = [pc EXCEPT !["main"] = "qd_loop"]
    /\ UNCHANGED <<head, tail, size, qprim, waiting, node, allocd, arg, new_node, ret>>
    /\ UNCHANGED <<harnessVars, consumerVars, brokerVars, historyVars>>

\* message_queue_destroy, line 92, on a mutex that was never initialized.
DestroyLockUninit ==
    /\ qprim = "uninit"
    /\ UndefinedStep("qd_lock", "qd_loop")

\* A destroy loop that frees the nodes and does not release their messages.
DestroyLoopNoRelease ==
    /\ pc["main"] = "qd_loop"
    /\ head /= UNINIT
    /\ IF head /= NULL
       THEN /\ head' = node[head].next
            /\ allocd' = allocd \ {head}
            /\ node' = [node EXCEPT ![head] = FreedNode]
            /\ pc' = pc
       ELSE /\ pc' = [pc EXCEPT !["main"] = "qd_unlock"]
            /\ UNCHANGED <<head, allocd, node>>
    /\ UNCHANGED <<tail, size, lock, qprim, waiting, arg, new_node, ret>>
    /\ UNCHANGED <<harnessVars, consumerVars, brokerVars, historyVars>>

\* message_queue_destroy, lines 94-99: one turn of the loop, or its exit.
\* tail and size are not written.
DestroyLoop ==
    /\ pc["main"] = "qd_loop"
    /\ head /= UNINIT
    /\ IF head /= NULL
       THEN /\ head' = node[head].next
            /\ released' = [released EXCEPT ![node[head].message] = @ + 1]
            /\ allocd' = allocd \ {head}
            /\ node' = [node EXCEPT ![head] = FreedNode]
            /\ pc' = pc
       ELSE /\ pc' = [pc EXCEPT !["main"] = "qd_unlock"]
            /\ UNCHANGED <<head, released, allocd, node>>
    /\ UNCHANGED <<tail, size, lock, qprim, waiting, arg, new_node, ret>>
    /\ UNCHANGED <<harnessVars, consumerVars, brokerVars>>
    /\ UNCHANGED <<pushLog, popLog, recvLog, pollsAfterClear, recvAfterClear>>

\* message_queue_destroy, lines 94-99, on a head that was never initialized.
DestroyLoopUninit ==
    /\ head = UNINIT
    /\ UndefinedStep("qd_loop", "qd_unlock")

\* message_queue_destroy, line 100.
DestroyUnlock ==
    /\ pc["main"] = "qd_unlock"
    /\ lock' = IF lock = "main" THEN NoThread ELSE lock
    /\ pc' = [pc EXCEPT !["main"] = "qd_prims"]
    /\ UNCHANGED <<head, tail, size, qprim, waiting, node, allocd, arg, new_node, ret>>
    /\ UNCHANGED <<harnessVars, consumerVars, brokerVars, historyVars>>

\* message_queue_destroy, lines 103-104.
DestroyPrims ==
    /\ pc["main"] = "qd_prims"
    /\ qprim' = IF qprim = "init" THEN "destroyed" ELSE qprim
    /\ pc' = [pc EXCEPT !["main"] = DestroyRet]
    /\ UNCHANGED <<head, tail, size, lock, waiting, node, allocd, arg, new_node, ret>>
    /\ UNCHANGED <<harnessVars, consumerVars, brokerVars, historyVars>>

\* Callers use a queue between its init and its destroy, and an object while
\* they hold a reference to it.
CallersMayUseQueue ==
    /\ qprim = "init"
    /\ pc["main"] \in {"q_run", "running"}

\* A caller enters message_queue_pop.
PopCall(t) ==
    /\ pc[t] = "idle"
    /\ CallersMayUseQueue
    /\ pc' = [pc EXCEPT ![t] = "pop_lock"]
    /\ UNCHANGED <<queueVars, arg, new_node, ret>>
    /\ UNCHANGED <<harnessVars, consumerVars, brokerVars, historyVars>>

----------------------------------------------------------------------------
\* SpecQ: the queue and its users

\* The next message of producer p.
NextMsg(p) == IF p = "p1" THEN sent[p] + 1 ELSE split + sent[p] + 1
Quota(p) == IF p = "p1" THEN split ELSE MaxMsgs - split
MsgsOf(p) == IF p = "p1" THEN 1..split ELSE (split + 1)..MaxMsgs

NoArgs == [ok |-> TRUE, bs |-> "-", gid |-> "-"]

InitCommon ==
    /\ head = UNINIT
    /\ tail = UNINIT
    /\ size = UNINIT
    /\ lock = NoThread
    /\ qprim = "uninit"
    /\ waiting = {}
    /\ node = [n \in NodeIds |-> FreedNode]
    /\ allocd = {}
    /\ arg = [t \in Threads |-> NULL]
    /\ new_node = [t \in Threads |-> NULL]
    /\ ret = [t \in Poppers |-> <<>>]
    /\ sent = [p \in Producers |-> 0]
    /\ obj = "none"
    /\ conf = "none"
    /\ confRes = "none"
    /\ rk = "uninit"
    /\ run_poller = UNINIT
    /\ rp_pending = FALSE
    /\ poller_thread = "uninit"
    /\ initResult = "none"
    /\ pyerr = "none"
    /\ brokerNext = 1
    /\ merr = [m \in Msgs |-> FALSE]
    /\ pushLog = <<>>
    /\ popLog = <<>>
    /\ recvLog = <<>>
    /\ released = [m \in Msgs |-> 0]
    /\ pollsAfterClear = 0
    /\ recvAfterClear = FALSE

InitQ ==
    /\ InitCommon
    /\ split \in 1..MaxMsgs
    /\ args = NoArgs
    /\ pc = [t \in Threads |->
               IF t = "main" THEN "q_start"
               ELSE IF t = "poller" THEN "unborn" ELSE "idle"]

\* The queue's user calls message_queue_init.
QMainInit ==
    /\ pc["main"] = "q_start"
    /\ QueueInit
    /\ pc' = [pc EXCEPT !["main"] = "q_run"]
    /\ UNCHANGED <<node, allocd, arg, new_node, ret>>
    /\ UNCHANGED <<harnessVars, consumerVars, brokerVars, historyVars>>

\* Producer p calls message_queue_push with its next message.
ProducerCall(p) ==
    /\ pc[p] = "idle"
    /\ CallersMayUseQueue
    /\ sent[p] < Quota(p)
    /\ arg' = [arg EXCEPT ![p] = NextMsg(p)]
    /\ sent' = [sent EXCEPT ![p] = @ + 1]
    /\ pc' = [pc EXCEPT ![p] = "push_malloc"]
    /\ UNCHANGED <<queueVars, new_node, ret, split>>
    /\ UNCHANGED <<consumerVars, brokerVars, historyVars>>

\* The queue's user calls message_queue_destroy once every producer and
\* consumer has left the queue.
QMainDestroy ==
    /\ pc["main"] = "q_run"
    /\ \A t \in Producers \cup Poppers : pc[t] = "idle"
    /\ pc' = [pc EXCEPT !["main"] = "qd_lock"]
    /\ UNCHANGED <<queueVars, arg, new_node, ret>>
    /\ UNCHANGED <<harnessVars, consumerVars, brokerVars, historyVars>>

NextQ ==
    \/ QMainInit
    \/ \E p \in Producers : ProducerCall(p)
    \/ \E p \in Producers : PushMalloc(p)
    \/ \E p \in Producers : PushLock(p)
    \/ \E p \in Producers : PushLink(p)
    \/ \E p \in Producers : PushSignal(p)
    \/ \E p \in Producers : PushUnlock(p)
    \/ \E t \in Poppers : PopCall(t)
    \/ \E t \in Poppers : PopLock(t)
    \/ \E t \in Poppers : PopTest(t)
    \/ \E t \in Poppers : SpuriousWakeup(t)
    \/ \E t \in Poppers : PopRelock(t)
    \/ \E t \in Poppers : PopUnlink(t)
    \/ \E t \in Poppers : PopUnlock(t)
    \/ QMainDestroy
    \/ DestroyLock
    \/ DestroyLoop
    \/ DestroyUnlock
    \/ DestroyPrims

SpecQ == InitQ /\ [][NextQ]_vars

\* The steps thread t takes by itself once it is inside a call.
ThreadStep(t) ==
    \/ PushMalloc(t) \/ PushLock(t) \/ PushLink(t) \/ PushSignal(t) \/ PushUnlock(t)
    \/ PopLock(t) \/ PopTest(t) \/ PopRelock(t) \/ PopUnlink(t) \/ PopUnlock(t)

\* message_queue_destroy's own steps.
DestroyStep == DestroyLock \/ DestroyLoop \/ DestroyUnlock \/ DestroyPrims

\* The scheduler runs every thread that stays able to run.
FairSpecQ ==
    /\ SpecQ
    /\ \A t \in Producers \cup Poppers : WF_vars(ThreadStep(t))
    /\ WF_vars(DestroyStep)

\* As FairSpecQ, and a producer that is waiting for the mutex gets it in the
\* end, and the queue's users go on using it: a caller that is outside a call
\* calls message_queue_pop again, unless the queue is destroyed.
FairSpecQUsers ==
    /\ FairSpecQ
    /\ \A p \in Producers : SF_vars(PushLock(p))
    /\ \A t \in Poppers : WF_vars(PopCall(t))
    /\ WF_vars(QMainDestroy)

----------------------------------------------------------------------------
\* consumer.c

\* What create_consumer can be called with: a tuple PyArg_ParseTuple "ss"
\* refuses, or two strings, each empty or not.
ArgChoices ==
    {[ok |-> FALSE, bs |-> "-", gid |-> "-"]}
    \cup [ok : {TRUE}, bs : {"", "broker:9092"}, gid : {"", "g1"}]

\* rd_kafka_conf_set is the client library's: it accepts the value or not.
ConfSetResults == {"RD_KAFKA_CONF_OK", "RD_KAFKA_CONF_INVALID"}

\* Consumer_init returns -1 (lines 80, 87, 92, 97, 104) with exception e set.
InitFail(e) ==
    /\ initResult' = "fail"
    /\ pyerr' = e
    /\ pc' = [pc EXCEPT !["main"] = "cc_decref"]

\* create_consumer, lines 168-171: PyObject_New gives an object whose fields
\* are not initialized, or fails.
CreateConsumerNew ==
    /\ pc["main"] = "cc_new"
    /\ \/ /\ obj' = "alloc"
          /\ pc' = [pc EXCEPT !["main"] = "init_parse"]
       \/ /\ obj' = obj
          /\ pc' = [pc EXCEPT !["main"] = "done"]
    /\ UNCHANGED <<args, conf, rk, run_poller, rp_pending, poller_thread, initResult, pyerr, confRes>>
    /\ UNCHANGED <<queueVars, arg, new_node, ret>>
    /\ UNCHANGED <<harnessVars, brokerVars, historyVars>>

\* Consumer_init, lines 79-80.
InitParse ==
    /\ pc["main"] = "init_parse"
    /\ IF args.ok
       THEN /\ pc' = [pc EXCEPT !["main"] = "init_conf_new"]
            /\ UNCHANGED <<initResult, pyerr>>
       ELSE InitFail("TypeError")
    /\ UNCHANGED <<obj, args, conf, rk, run_poller, rp_pending, poller_thread, confRes>>
    /\ UNCHANGED <<queueVars, arg, new_node, ret>>
    /\ UNCHANGED <<harnessVars, brokerVars, historyVars>>

\* Consumer_init, line 83.
InitConfNew ==
    /\ pc["main"] = "init_conf_new"
    /\ conf' = "alloc"
    /\ pc' = [pc EXCEPT !["main"] = "init_set_bs"]
    /\ UNCHANGED <<obj, args, rk, run_poller, rp_pending, poller_thread, initResult, pyerr, confRes>>
    /\ UNCHANGED <<queueVars, arg, new_node, ret>>
    /\ UNCHANGED <<harnessVars, brokerVars, historyVars>>

\* An rd_kafka_conf_set whose failure sets the exception and does not return.
InitConfSetNoReturn(from, to) ==
    /\ pc["main"] = from
    /\ \E r \in ConfSetResults :
          /\ confRes' = r
          /\ IF r = "RD_KAFKA_CONF_OK"
             THEN UNCHANGED <<initResult, pyerr>>
             ELSE initResult' = "fail" /\ pyerr' = "ValueError"
    /\ pc' = [pc EXCEPT !["main"] = to]
    /\ UNCHANGED <<obj, args, conf, rk, run_poller, rp_pending, poller_thread>>
    /\ UNCHANGED <<queueVars, arg, new_node, ret>>
    /\ UNCHANGED <<harnessVars, brokerVars, historyVars>>

\* Consumer_init, lines 85-98: one rd_kafka_conf_set and the test of its
\* result. The value is handed to the library as it is.
InitConfSet(from, to) ==
    /\ pc["main"] = from
    /\ \E r \in ConfSetResults :
          /\ confRes' = r
          /\ IF r = "RD_KAFKA_CONF_OK"
             THEN /\ pc' = [pc EXCEPT !["main"] = to]
                  /\ UNCHANGED <<initResult, pyerr>>
             ELSE InitFail("ValueError")
    /\ UNCHANGED <<obj, args, conf, rk, run_poller, rp_pending, poller_thread>>
    /\ UNCHANGED <<queueVars, arg, new_node, ret>>
    /\ UNCHANGED <<harnessVars, brokerVars, historyVars>>

\* Consumer_init, lines 85-88: bootstrap.servers.
InitSetServers == InitConfSet("init_set_bs", "init_set_gid")

\* Consumer_init, lines 90-93: group.id.
InitSetGroup == InitConfSet("init_set_gid", "init_set_commit")

\* Consumer_init, lines 95-98: enable.auto.commit.
InitSetCommit == InitConfSet("init_set_commit", "init_rk_new")

\* Consumer_init, lines 101-105: rd_kafka_new takes the configuration when it
\* succeeds, and leaves it to the caller when it fails.
InitRdKafkaNew ==
    /\ pc["main"] = "init_rk_new"
    /\ \/ /\ rk' = "open"
          /\ conf' = "owned"
          /\ pc' = [pc EXCEPT !["main"] = "init_queue"]
          /\ UNCHANGED <<initResult, pyerr>>
       \/ /\ rk' = "null"
          /\ conf' = conf
          /\ InitFail("RuntimeError")
    /\ UNCHANGED <<obj, args, run_poller, rp_pending, poller_thread, confRes>>
    /\ UNCHANGED <<queueVars, arg, new_node, ret>>
    /\ UNCHANGED <<harnessVars, brokerVars, historyVars>>

\* Consumer_init, line 108.
InitQueue ==
    /\ pc["main"] = "init_queue"
    /\ QueueInit
    /\ pc' = [pc EXCEPT !["main"] = "init_run"]
    /\ UNCHANGED <<node, allocd, arg, new_node, ret>>
    /\ UNCHANGED <<harnessVars, consumerVars, brokerVars, historyVars>>

\* Consumer_init, line 111.
InitSetRun ==
    /\ pc["main"] = "init_run"
    /\ run_poller' = 1
    /\ pc' = [pc EXCEPT !["main"] = "init_thread"]
    /\ UNCHANGED <<obj, args, conf, rk, rp_pending, poller_thread, initResult, pyerr, confRes>>
    /\ UNCHANGED <<queueVars, arg, new_node, ret>>
    /\ UNCHANGED <<harnessVars, brokerVars, historyVars>>

\* Consumer_init, line 112: pthread_create starts the poller, or fails and
\* leaves poller_thread as it was; its result is not looked at.
InitPthreadCreate ==
    /\ pc["main"] = "init_thread"
    /\ \/ /\ poller_thread' = "started"
          /\ pc' = [pc EXCEPT !["main"] = "init_ret", !["poller"] = "while"]
       \/ /\ poller_thread' = poller_thread
          /\ pc' = [pc EXCEPT !["main"] = "init_ret"]
    /\ UNCHANGED <<obj, args, conf, rk, run_poller, rp_pending, initResult, pyerr, confRes>>
    /\ UNCHANGED <<queueVars, arg, new_node, ret>>
    /\ UNCHANGED <<harnessVars, brokerVars, historyVars>>

\* Consumer_init, line 114, and create_consumer, line 178: the object is
\* handed to the caller.
InitReturn ==
    /\ pc["main"] = "init_ret"
    /\ initResult' = "ok"
    /\ args' = NoArgs
    /\ pc' = [pc EXCEPT !["main"] = "running"]
    /\ UNCHANGED <<obj, conf, rk, run_poller, rp_pending, poller_thread, pyerr, confRes>>
    /\ UNCHANGED <<queueVars, arg, new_node, ret>>
    /\ UNCHANGED <<harnessVars, brokerVars, historyVars>>

\* create_consumer, lines 173-175: Py_DECREF drops the only reference, which
\* runs Consumer_dealloc.
CreateConsumerDecref ==
    /\ pc["main"] = "cc_decref"
    /\ pc' = [pc EXCEPT !["main"] = "d_clear"]
    /\ UNCHANGED <<queueVars, arg, new_node, ret>>
    /\ UNCHANGED <<harnessVars, consumerVars, brokerVars, historyVars>>

\* The last reference to a running object is dropped, which runs
\* Consumer_dealloc; no caller is inside a call on the object then.
DeallocCall ==
    /\ pc["main"] = "running"
    /\ \A t \in Poppers : pc[t] = "idle"
    /\ pc' = [pc EXCEPT !["main"] = "d_clear"]
    /\ UNCHANGED <<queueVars, arg, new_node, ret>>
    /\ UNCHANGED <<harnessVars, consumerVars, brokerVars, historyVars>>

\* A teardown that clears run_poller and goes straight to
\* message_queue_destroy, with no join of the poller thread.
DeallocClearThenDestroy ==
    /\ pc["main"] = "d_clear"
    /\ rp_pending' = TRUE
    /\ pc' = [pc EXCEPT !["main"] = "qd_lock"]
    /\ UNCHANGED <<obj, args, conf, rk, run_poller, poller_thread, initResult, pyerr, confRes>>
    /\ UNCHANGED <<queueVars, arg, new_node, ret>>
    /\ UNCHANGED <<harnessVars, brokerVars, historyVars>>

\* Consumer_dealloc, line 127: a plain store, which the poller thread reads
\* with no synchronization; it reaches that thread at some later moment.
DeallocClear ==
    /\ pc["main"] = "d_clear"
    /\ rp_pending' = TRUE
    /\ pc' = [pc EXCEPT !["main"] = "d_join"]
    /\ UNCHANGED <<obj, args, conf, rk, run_poller, poller_thread, initResult, pyerr, confRes>>
    /\ UNCHANGED <<queueVars, arg, new_node, ret>>
    /\ UNCHANGED <<harnessVars, brokerVars, historyVars>>

\* The store of line 127 becomes visible to the other threads.
StoreVisible ==
    /\ rp_pending
    /\ run_poller' = 0
    /\ rp_pending' = FALSE
    /\ UNCHANGED <<obj, args, conf, rk, poller_thread, initResult, pyerr, confRes>>
    /\ UNCHANGED <<queueVars, threadVars>>
    /\ UNCHANGED <<harnessVars, brokerVars, historyVars>>

\* A teardown that goes on to close the client without waiting for the
\* poller thread to return.
DeallocJoinNoWait ==
    /\ pc["main"] = "d_join"
    /\ poller_thread = "started"
    /\ poller_thread' = "joined"
    /\ pc' = [pc EXCEPT !["main"] = "d_close"]
    /\ UNCHANGED <<obj, args, conf, rk, run_poller, rp_pending, initResult, pyerr, confRes>>
    /\ UNCHANGED <<queueVars, arg, new_node, ret>>
    /\ UNCHANGED <<harnessVars, brokerVars, historyVars>>

\* Consumer_dealloc, line 128: pthread_join returns once the poller thread has
\* returned.
DeallocJoin ==
    /\ pc["main"] = "d_join"
    /\ poller_thread = "started"
    /\ pc["poller"] = "exited"
    /\ poller_thread' = "joined"
    /\ pc' = [pc EXCEPT !["main"] = "d_close"]
    /\ UNCHANGED <<obj, args, conf, rk, run_poller, rp_pending, initResult, pyerr, confRes>>
    /\ UNCHANGED <<queueVars, arg, new_node, ret>>
    /\ UNCHANGED <<harnessVars, brokerVars, historyVars>>

\* Consumer_dealloc, line 128, on a poller_thread no pthread_create has set.
DeallocJoinUninit ==
    /\ poller_thread = "uninit"
    /\ UndefinedStep("d_join", "d_close")

\* Consumer_dealloc, line 131.
DeallocClose ==
    /\ pc["main"] = "d_close"
    /\ rk = "open"
    /\ rk' = "closed"
    /\ pc' = [pc EXCEPT !["main"] = "d_destroy_rk"]
    /\ UNCHANGED <<obj, args, conf, run_poller, rp_pending, poller_thread, initResult, pyerr, confRes>>
    /\ UNCHANGED <<queueVars, arg, new_node, ret>>
    /\ UNCHANGED <<harnessVars, brokerVars, historyVars>>

\* Consumer_dealloc, line 131, on an rk that is NULL or was never set.
DeallocCloseUninit ==
    /\ rk \in {"uninit", "null"}
    /\ UndefinedStep("d_close", "d_destroy_rk")

\* Consumer_dealloc, line 132: rd_kafka_destroy frees the client and the
\* configuration it took.
DeallocDestroyRk ==
    /\ pc["main"] = "d_destroy_rk"
    /\ rk = "closed"
    /\ rk' = "destroyed"
    /\ conf' = "freed"
    /\ pc' = [pc EXCEPT !["main"] = "qd_lock"]
    /\ UNCHANGED <<obj, args, run_poller, rp_pending, poller_thread, initResult, pyerr, confRes>>
    /\ UNCHANGED <<queueVars, arg, new_node, ret>>
    /\ UNCHANGED <<harnessVars, brokerVars, historyVars>>

\* Consumer_dealloc, line 132, on an rk that is NULL or was never set.
DeallocDestroyRkUninit ==
    /\ rk \in {"uninit", "null"}
    /\ UndefinedStep("d_destroy_rk", "qd_lock")

\* Consumer_dealloc, line 138.
DeallocFree ==
    /\ pc["main"] = "d_free"
    /\ obj' = "freed"
    /\ pc' = [pc EXCEPT !["main"] = "done"]
    /\ UNCHANGED <<args, conf, rk, run_poller, rp_pending, poller_thread, initResult, pyerr, confRes>>
    /\ UNCHANGED <<queueVars, arg, new_node, ret>>
    /\ UNCHANGED <<harnessVars, brokerVars, historyVars>>

\* Whether Consumer_dealloc has executed line 127.
ClearExecuted == rp_pending \/ run_poller = 0

\* poller_thread_func, line 33: the loop test.
PollerTest ==
    /\ pc["poller"] = "while"
    /\ pc' = [pc EXCEPT !["poller"] = IF run_poller /= 0 THEN "poll" ELSE "exited"]
    /\ UNCHANGED <<queueVars, arg, new_node, ret>>
    /\ UNCHANGED <<harnessVars, consumerVars, brokerVars, historyVars>>

\* poller_thread_func, line 35: rd_kafka_consumer_poll is called.
PollerPollBegin ==
    /\ pc["poller"] = "poll"
    /\ pc' = [pc EXCEPT !["poller"] = "polling"]
    /\ pollsAfterClear' =
          IF ClearExecuted /\ pollsAfterClear < PollCountCap
          THEN pollsAfterClear + 1 ELSE pollsAfterClear
    /\ UNCHANGED <<queueVars, arg, new_node, ret>>
    /\ UNCHANGED <<harnessVars, consumerVars, brokerVars>>
    /\ UNCHANGED <<pushLog, popLog, recvLog, released, recvAfterClear>>

\* poller_thread_func, line 35: rd_kafka_consumer_poll returns NULL (nothing
\* within the timeout) or the broker's next record, with err set or not.
PollerPollReturn ==
    /\ pc["poller"] = "polling"
    /\ pc' = [pc EXCEPT !["poller"] = "poll_check"]
    /\ \/ /\ arg' = [arg EXCEPT !["poller"] = NULL]
          /\ UNCHANGED <<brokerNext, merr, recvLog, recvAfterClear>>
       \/ /\ brokerNext \in Msgs
          /\ \E e \in BOOLEAN :
                /\ merr' = [merr EXCEPT ![brokerNext] = e]
                /\ recvLog' = IF e THEN recvLog ELSE Append(recvLog, brokerNext)
                /\ recvAfterClear' = (recvAfterClear \/ (~e /\ ClearExecuted))
          /\ arg' = [arg EXCEPT !["poller"] = brokerNext]
          /\ brokerNext' = brokerNext + 1
    /\ UNCHANGED <<queueVars, new_node, ret>>
    /\ UNCHANGED <<harnessVars, consumerVars>>
    /\ UNCHANGED <<pushLog, popLog, released, pollsAfterClear>>

\* A loop body that pushes whatever record it got.
PollerCheckNoErrTest ==
    /\ pc["poller"] = "poll_check"
    /\ IF arg["poller"] = NULL
       THEN pc' = [pc EXCEPT !["poller"] = "while"]
       ELSE pc' = [pc EXCEPT !["poller"] = "push_malloc"]
    /\ UNCHANGED <<queueVars, arg, new_node, ret>>
    /\ UNCHANGED <<harnessVars, consumerVars, brokerVars, historyVars>>

\* A loop body with no else: it destroys an error record and pushes it too.
PollerCheckDestroyAndPush ==
    /\ pc["poller"] = "poll_check"
    /\ IF arg["poller"] = NULL
       THEN /\ pc' = [pc EXCEPT !["poller"] = "while"]
            /\ UNCHANGED released
       ELSE /\ released' = IF merr[arg["poller"]]
                           THEN [released EXCEPT ![arg["poller"]] = @ + 1]
                           ELSE released
            /\ pc' = [pc EXCEPT !["poller"] = "push_malloc"]
    /\ UNCHANGED <<queueVars, arg, new_node, ret>>
    /\ UNCHANGED <<harnessVars, consumerVars, brokerVars>>
    /\ UNCHANGED <<pushLog, popLog, recvLog, pollsAfterClear, recvAfterClear>>

\* A loop body that leaves the loop when a receive reports an error.
PollerCheckExitOnError ==
    /\ pc["poller"] = "poll_check"
    /\ IF arg["poller"] = NULL
       THEN /\ pc' = [pc EXCEPT !["poller"] = "while"]
            /\ UNCHANGED <<arg, released>>
       ELSE IF merr[arg["poller"]]
       THEN /\ released' = [released EXCEPT ![arg["poller"]] = @ + 1]
            /\ arg' = [arg EXCEPT !["poller"] = NULL]
            /\ pc' = [pc EXCEPT !["poller"] = "exited"]
       ELSE /\ pc' = [pc EXCEPT !["poller"] = "push_malloc"]
            /\ UNCHANGED <<arg, released>>
    /\ UNCHANGED <<queueVars, new_node, ret>>
    /\ UNCHANGED <<harnessVars, consumerVars, brokerVars>>
    /\ UNCHANGED <<pushLog, popLog, recvLog, pollsAfterClear, recvAfterClear>>

\* poller_thread_func, lines 36-44: nothing, an error record (destroyed), or
\* a message (message_queue_push is called).
PollerCheck ==
    /\ pc["poller"] = "poll_check"
    /\ IF arg["poller"] = NULL
       THEN /\ pc' = [pc EXCEPT !["poller"] = "while"]
            /\ UNCHANGED <<arg, released>>
       ELSE IF merr[arg["poller"]]
       THEN /\ released' = [released EXCEPT ![arg["poller"]] = @ + 1]
            /\ arg' = [arg EXCEPT !["poller"] = NULL]
            /\ pc' = [pc EXCEPT !["poller"] = "while"]
       ELSE /\ pc' = [pc EXCEPT !["poller"] = "push_malloc"]
            /\ UNCHANGED <<arg, released>>
    /\ UNCHANGED <<queueVars, new_node, ret>>
    /\ UNCHANGED <<harnessVars, consumerVars, brokerVars>>
    /\ UNCHANGED <<pushLog, popLog, recvLog, pollsAfterClear, recvAfterClear>>

Init ==
    /\ InitCommon
    /\ split = MaxMsgs
    /\ args \in ArgChoices
    /\ pc = [t \in Threads |->
               IF t = "main" THEN "cc_new"
               ELSE IF t \in Poppers THEN "idle" ELSE "unborn"]

Poller == "poller"

Next ==
    \/ CreateConsumerNew
    \/ InitParse
    \/ InitConfNew
    \/ InitSetServers
    \/ InitSetGroup
    \/ InitSetCommit
    \/ InitRdKafkaNew
    \/ InitQueue
    \/ InitSetRun
    \/ InitPthreadCreate
    \/ InitReturn
    \/ CreateConsumerDecref
    \/ PollerTest
    \/ PollerPollBegin
    \/ PollerPollReturn
    \/ PollerCheck
    \/ PushMalloc(Poller)
    \/ PushLock(Poller)
    \/ PushLink(Poller)
    \/ PushSignal(Poller)
    \/ PushUnlock(Poller)
    \/ \E t \in Poppers : PopCall(t)
    \/ \E t \in Poppers : PopLock(t)
    \/ \E t \in Poppers : PopTest(t)
    \/ \E t \in Poppers : SpuriousWakeup(t)
    \/ \E t \in Poppers : PopRelock(t)
    \/ \E t \in Poppers : PopUnlink(t)
    \/ \E t \in Poppers : PopUnlock(t)
    \/ DeallocCall
    \/ DeallocClear
    \/ StoreVisible
    \/ DeallocJoin
    \/ DeallocJoinUninit
    \/ DeallocClose
    \/ DeallocCloseUninit
    \/ DeallocDestroyRk
    \/ DeallocDestroyRkUninit
    \/ DestroyLock
    \/ DestroyLockUninit
    \/ DestroyLoop
    \/ DestroyLoopUninit
    \/ DestroyUnlock
    \/ DestroyPrims
    \/ DeallocFree

Spec == Init /\ [][Next]_vars

----------------------------------------------------------------------------
\* Properties

\* m1..mN
AllMsgs == [i \in 1..MaxMsgs |-> i]

\* The number of message_queue_pop calls that have returned.
Returned == Len(ret["c1"]) + Len(ret["c2"])

\* C1 (FIFO): with a single producer pushing m1..mN in that order, the
\* messages the pops remove, in the order they remove them under the lock,
\* are m1, m2, ... in that order, whatever the interleaving of the pushes and
\* of the two pop callers.
C1_Fifo ==
    split = MaxMsgs => IsPrefix(popLog, AllMsgs)

\* All of m1..mN were popped, in order, and both callers got some of them.
C1_Witness ==
    /\ split = MaxMsgs
    /\ popLog = AllMsgs
    /\ ret["c1"] /= <<>>
    /\ ret["c2"] /= <<>>

\* The callers that are inside message_queue_pop.
Pending == {t \in Poppers : pc[t] /= "idle"}

\* The callers that have left the wait loop and not yet removed a node.
PastWait == {t \in Poppers : pc[t] = "pop_unlink"}

\* A pop gets past the wait loop only for a node some push has linked: the
\* pops that got past it are never more than the pushes, and each finds a node.
C2_NoReturnWithoutPush ==
    /\ Len(popLog) + Cardinality(PastWait) <= Len(pushLog)
    /\ Returned <= Len(pushLog)
    /\ \A t \in PastWait : head \in NodeIds
    /\ \A i \in 1..Len(popLog) : popLog[i] \in Msgs

\* C2 (blocking): a message_queue_pop on an empty queue does not return
\* before a push has linked a node, spurious wakeups included, so that after
\* one push at most one of the pending pops returns and the others stay in
\* the wait; and once a push has happened while a pop is pending, a pop
\* does return.
C2_Blocking ==
    /\ []C2_NoReturnWithoutPush
    /\ (Len(pushLog) >= 1 /\ Pending /= {}) ~> (Returned >= 1)

\* One push has happened, one caller has returned with its message, and the
\* other caller, which has never returned, is blocked in the wait on the
\* queue that is empty again.
C2_Witness ==
    /\ Len(pushLog) = 1
    /\ Returned = 1
    /\ \E t \in Poppers : pc[t] = "pop_waiting" /\ t \in waiting /\ ret[t] = <<>>
    /\ head = NULL

\* How many times m occurs in s.
RECURSIVE Count(_, _)
Count(s, m) ==
    IF s = <<>> THEN 0
    ELSE (IF Head(s) = m THEN 1 ELSE 0) + Count(Tail(s), m)

\* The messages handed to message_queue_push so far.
Passed == {m \in Msgs : \E p \in Producers : m \in MsgsOf(p) /\ m < NextMsg(p)}

\* The places message m can be in.
InPush(m) ==
    Cardinality({t \in Producers \cup {"poller"} :
        arg[t] = m /\ pc[t] \in {"push_malloc", "push_lock", "push_link"}})
InQueue(m) == Count(QueueMsgs, m)
InPop(m) == Cardinality({t \in Poppers : arg[t] = m /\ pc[t] = "pop_unlock"})
InCaller(m) == Count(ret["c1"], m) + Count(ret["c2"], m)

\* Every message handed to push is in one place: the push that has not
\* linked it yet, one node of the queue, the pop that unlinked it, the
\* caller one pop returned it to, or released by message_queue_destroy.
C3_Conserved ==
    \A m \in Passed :
        /\ InPush(m) + InQueue(m) + InPop(m) + InCaller(m) + released[m] = 1
        /\ Count(popLog, m) = InPop(m) + InCaller(m)

\* Message m was returned to a caller by a pop, or released by destroy.
Settled(m) == InCaller(m) = 1 \/ released[m] = 1

Obtained == 1..(brokerNext - 1)

\* Whether the poller thread holds m: from the return of the poll to the
\* release of an error record or to the linking of the node.
InPoller(m) ==
    IF /\ arg["poller"] = m
       /\ pc["poller"] \in {"poll_check", "push_malloc", "push_lock", "push_link"}
    THEN 1 ELSE 0

\* C4 (single ownership): in every reachable state a record obtained from the
\* broker client is in exactly one place: held by the poller thread between
\* the poll and the push, in one node of the queue, with the caller whose pop
\* removed it, or released; so no record is in two nodes, in the queue and
\* with a caller, or released twice.
C4_SingleOwner ==
    \A m \in Msgs :
        IF m \in Obtained
        THEN /\ InPoller(m) + InQueue(m) + InPop(m) + InCaller(m) + released[m] = 1
             /\ released[m] <= 1
        ELSE InPoller(m) + InQueue(m) + InPop(m) + InCaller(m) + released[m] = 0

\* After teardown: one error record was released by the poller thread, one
\* message is with a caller, one was released by message_queue_destroy.
C4_Witness ==
    /\ pc["main"] = "done"
    /\ obj = "freed"
    /\ \E m \in Obtained : merr[m] /\ released[m] = 1
    /\ \E m \in Obtained : InCaller(m) = 1
    /\ \E m \in Obtained : ~merr[m] /\ released[m] = 1

\* Consumer_dealloc has returned from pthread_join (line 128).
PastJoin ==
    pc["main"] \in {"d_close", "d_destroy_rk", "qd_lock", "qd_loop", "qd_unlock",
                    "qd_prims", "d_free", "done"}

\* C5 (shutdown bound): after Consumer_dealloc has cleared run_poller the
\* poller thread begins at most one more rd_kafka_consumer_poll (the one it
\* was about to start), and Consumer_dealloc gets past pthread_join only
\* when the poller thread it started has returned.
C5_ShutdownBound ==
    /\ pollsAfterClear <= 1
    /\ (poller_thread /= "uninit" /\ PastJoin) => pc["poller"] = "exited"

\* C6 (error absorption): whatever the broker's receives yield, only a success
\* is pushed: every pushed record has no error, there are never more pushes
\* than successes, and an error record is in no node, with no pop and with no
\* caller; it is held by the poller thread until it is released there.
C6_ErrorAbsorption ==
    /\ \A i \in 1..Len(pushLog) : ~merr[pushLog[i]]
    /\ Len(pushLog) <= Len(recvLog)
    /\ \A m \in Obtained :
          merr[m] =>
             /\ InQueue(m) = 0 /\ InPop(m) = 0 /\ InCaller(m) = 0
             /\ Count(popLog, m) = 0
             /\ released[m] = 1 \/ (arg["poller"] = m /\ pc["poller"] = "poll_check")

\* Every other receive reported an error: the first and the third record
\* were error records and were released, the second is with a caller.
C6_Witness ==
    /\ brokerNext = 4
    /\ merr[1] /\ released[1] = 1
    /\ ~merr[2] /\ InCaller(2) = 1
    /\ merr[3] /\ released[3] = 1

\* C7 (end-to-end order): the messages handed out by message_queue_pop are,
\* in the order of their removal, a prefix of the successful receives of the
\* poller thread in their order; each caller gets its messages in that order;
\* and no more pops return than there were successful receives, so after
\* successes A, B, C and then timeouts a fourth pop does not return.
C7_EndToEndOrder ==
    /\ IsPrefix(popLog, recvLog)
    /\ \A t \in Poppers : Restrict(recvLog, Range(ret[t])) = ret[t]
    /\ Returned + Cardinality(PastWait) <= Len(recvLog)

\* Three successes, then timeouts: one caller got 1, 2, 3 from three pops
\* one after the other, and is blocked in its fourth.
C7_Witness ==
    /\ recvLog = AllMsgs
    /\ brokerNext = MaxMsgs + 1
    /\ \E t \in Poppers : ret[t] = AllMsgs /\ pc[t] = "pop_waiting"
    /\ pc["poller"] = "polling"

\* Consumer_dealloc is running on, or has crashed on, an object.
InTeardown ==
    pc["main"] \in {"d_clear", "d_join", "d_close", "d_destroy_rk", "qd_lock",
                    "qd_loop", "qd_unlock", "qd_prims", "d_free", "crashed"}

\* C8 (a failed initialization holds nothing): when Consumer_init has failed,
\* no poller thread was started, the queue was not initialized, no client
\* handle and no configuration object is allocated, and no teardown step is
\* run on the object, which was never initialized.
C8_FailedInitHoldsNothing ==
    initResult = "fail" =>
        /\ poller_thread = "uninit" /\ pc["poller"] = "unborn"
        /\ qprim = "uninit"
        /\ rk \notin {"open", "closed"}
        /\ conf /= "alloc"
        /\ ~InTeardown

\* C9 as stated (argument validation): with an empty endpoints string or an
\* empty group identifier, Consumer_init fails: it starts no poller thread
\* and does not return success.
C9_ArgumentValidation ==
    (args.ok /\ (args.bs = "" \/ args.gid = "")) =>
        /\ poller_thread = "uninit"
        /\ pc["main"] /= "init_ret"

\* C9 as amended: Consumer_init fails with a configuration error (ValueError)
\* exactly when an rd_kafka_conf_set call has rejected its value, whatever
\* the strings are, and whenever Consumer_init has failed no poller thread
\* has been started.
C9_ConfigErrorFromClient ==
    /\ (pyerr = "ValueError") <=> (confRes = "RD_KAFKA_CONF_INVALID")
    /\ (confRes = "RD_KAFKA_CONF_INVALID") => initResult = "fail"
    /\ initResult = "fail" => (poller_thread = "uninit" /\ pc["poller"] = "unborn")
    /\ poller_thread /= "uninit" => confRes = "RD_KAFKA_CONF_OK"

\* An empty endpoints string, rejected by rd_kafka_conf_set: a configuration
\* error, and no poller thread.
C9_Witness ==
    /\ args.ok /\ args.bs = ""
    /\ initResult = "fail"
    /\ pyerr = "ValueError"
    /\ poller_thread = "uninit"

\* The messages of producer p, in the order p pushes them.
SeqOf(p) == [i \in 1..Quota(p) |-> IF p = "p1" THEN i ELSE split + i]

\* C10 (two producers): until the queue is destroyed the pushed messages
\* are, as a multiset, those in the queue and those popped, so that as many
\* pops as pushes return the union of both producers' messages, each once;
\* and the messages of each producer are popped in the order that producer
\* pushed them.
C10_MultiProducer ==
    /\ \A m \in Msgs :
          /\ pc["main"] = "q_run" => Count(pushLog, m) = InQueue(m) + Count(popLog, m)
          /\ Count(popLog, m) <= 1
    /\ Len(popLog) = MaxMsgs => Range(popLog) = Msgs
    /\ \A p \in Producers : IsPrefix(Restrict(popLog, MsgsOf(p)), SeqOf(p))

\* Both producers pushed, all messages were popped, and a message of the
\* second producer came out before the last message of the first.
C10_Witness ==
    /\ split > 1 /\ split < MaxMsgs
    /\ Len(popLog) = MaxMsgs
    /\ popLog /= AllMsgs
    /\ \A p \in Producers : Restrict(popLog, MsgsOf(p)) = SeqOf(p)

\* Consumer_dealloc's statements after line 127 (dealloc steps still to run).
TeardownSteps ==
    {"d_join", "d_close", "d_destroy_rk", "qd_lock", "qd_loop", "qd_unlock",
     "qd_prims", "d_free"}

\* The poller thread is inside poller_thread_func.
PollerExecuting == pc["poller"] \notin {"unborn", "exited"}

\* C11 (lifecycle): Consumer_dealloc and its teardown steps (join, close and
\* destroy the client, destroy the queue) run only on an object Consumer_init
\* has made running, so that an object goes from uninitialized to running and
\* from running to stopped and in no other way; and the poller thread executes
\* only from its start in Consumer_init to the join in Consumer_dealloc.
C11_Lifecycle ==
    /\ (InTeardown \/ pc["main"] \in TeardownSteps) => initResult = "ok"
    /\ obj = "freed" => initResult = "ok"
    /\ PollerExecuting =>
          pc["main"] \in {"init_ret", "running", "d_clear", "d_join"}

\* C12 (exactly one poller): when Consumer_init has returned success the
\* queue is initialized, run_poller is set and the object's poller thread is
\* executing; and an object that was reported initialized never has no
\* poller thread started for it, a failed thread start included.
C12_ExactlyOnePoller ==
    /\ pc["main"] = "running" =>
          /\ initResult = "ok"
          /\ qprim = "init"
          /\ run_poller = 1
          /\ poller_thread = "started"
          /\ PollerExecuting
    /\ initResult = "ok" => poller_thread \in {"started", "joined"}

\* C13 (loop exit): the poller thread has left its loop only when run_poller
\* is 0, which only Consumer_dealloc's store makes it; the step that leaves
\* the loop is the loop test reading 0 while Consumer_dealloc waits in
\* pthread_join, and no result of a receive (an error record, nothing within
\* the timeout, any number of errors in a row) leaves it.
C13_LoopExit ==
    /\ [](pc["poller"] = "exited" => run_poller = 0)
    /\ [][(pc'["poller"] = "exited" /\ pc["poller"] /= "exited") =>
             (pc["poller"] = "while" /\ run_poller = 0 /\ pc["main"] = "d_join")]_vars

\* Every receive so far gave an error record, MaxMsgs of them in a row, and
\* the poller thread, with run_poller still set, is back in its loop.
C13_Witness ==
    /\ brokerNext = MaxMsgs + 1
    /\ \A m \in Msgs : merr[m] /\ released[m] = 1
    /\ run_poller = 1 /\ ~rp_pending
    /\ pc["poller"] = "poll"

\* The queue is between its message_queue_init and its message_queue_destroy.
QueueInUse ==
    /\ qprim = "init"
    /\ pc["main"] \notin {"qd_lock", "qd_loop", "qd_unlock", "qd_prims"}

\* The calls of message_queue_push that have returned.
CompletedPushes ==
    sent["p1"] + sent["p2"] - Cardinality({p \in Producers : pc[p] /= "idle"})

\* C14 (queue structure): whenever no thread holds the lock of a queue that
\* is in use, head is NULL iff tail is NULL iff size is 0; the next links
\* from head pass exactly size nodes, the last of which is tail, whose next
\* is NULL; and size is the number of pushes that have returned minus the
\* number of pops that have returned.
C14_Structure ==
    (QueueInUse /\ lock = NoThread) =>
        /\ (head = NULL) <=> (tail = NULL)
        /\ (head = NULL) <=> (size = 0)
        /\ LET c == Chain(head, MaxMsgs + 1)
           IN  /\ Len(c) = size
               /\ size > 0 => (c[size] = tail /\ node[tail].next = NULL)
               /\ \A i \in 1..Len(c) : c[i] \in allocd
        /\ size = CompletedPushes - Returned

\* Three pushes and one pop have returned: two nodes are linked, head is not
\* tail, and nobody holds the lock.
C14_Witness ==
    /\ QueueInUse /\ lock = NoThread
    /\ CompletedPushes = 3 /\ Returned = 1
    /\ size = 2 /\ head /= tail
    /\ node[head].next = tail

\* The number of messages message_queue_destroy or the poller has released.
NumReleased == Cardinality({m \in Msgs : released[m] >= 1})

\* message_queue_destroy has returned to the queue's user.
DestroyReturned == pc["main"] = "q_done"

\* C15 as stated: message_queue_destroy releases the message of each node
\* that was left exactly once, frees each node, and leaves the queue empty:
\* head NULL, tail NULL and size 0.
C15_DestroyLeavesEmpty ==
    DestroyReturned =>
        /\ \A m \in Msgs : released[m] = Count(pushLog, m) - Count(popLog, m)
        /\ allocd = {}
        /\ head = NULL /\ tail = NULL /\ size = 0

\* C15 as amended: every turn of the loop of message_queue_destroy frees a
\* node that is allocated and releases its message, which was not released
\* before, and writes neither tail nor size; when message_queue_destroy has
\* returned, each of the n messages that were left was released once, the
\* others never, no node is allocated, head is NULL, size is still n and,
\* for n >= 1, tail still holds the address of the last node, now freed.
C15_DestroyReleasesAll ==
    /\ [](DestroyReturned =>
            /\ \A m \in Msgs : released[m] = Count(pushLog, m) - Count(popLog, m)
            /\ allocd = {}
            /\ head = NULL
            /\ size = NumReleased
            /\ (tail = NULL) <=> (NumReleased = 0)
            /\ tail /= NULL => tail \in NodeIds \ allocd)
    /\ [][(pc["main"] = "qd_loop" /\ head' /= head) =>
             /\ head \in allocd
             /\ released[node[head].message] = 0
             /\ released' = [released EXCEPT ![node[head].message] = 1]
             /\ allocd' = allocd \ {head}
             /\ tail' = tail /\ size' = size]_vars

\* message_queue_destroy has returned from a queue that held two nodes: both
\* messages were released, head is NULL, size is 2 and tail is not NULL.
C15_Witness ==
    /\ DestroyReturned
    /\ NumReleased = 2
    /\ head = NULL /\ size = 2 /\ tail /= NULL
    /\ allocd = {}

\* message_queue_destroy is running (queue.c lines 91-105).
InQueueDestroy == pc["main"] \in {"qd_lock", "qd_loop", "qd_unlock", "qd_prims"}

\* C16 (teardown order, client exclusivity): Consumer_dealloc clears
\* run_poller before anything else, closes the client only after the join of
\* the poller thread, destroys it after closing it, destroys the queue after
\* that and frees the object last; so the poller thread is never inside
\* poller_thread_func, and in particular never in or about to start
\* rd_kafka_consumer_poll, once the client is being closed or is destroyed.
C16_TeardownOrder ==
    /\ (pc["main"] \in TeardownSteps) => ClearExecuted
    /\ rk \in {"closed", "destroyed"} =>
          /\ ClearExecuted
          /\ poller_thread /= "started"
          /\ pc["main"] \notin {"d_clear", "d_join", "d_close"}
    /\ rk = "closed" => pc["main"] = "d_destroy_rk"
    /\ (InQueueDestroy \/ pc["main"] = "d_free" \/ obj = "freed") =>
          rk \notin {"open", "closed"}
    /\ obj = "freed" => qprim /= "init"
    /\ PollerExecuting => rk = "open"
    /\ pc["poller"] \in {"poll", "polling"} =>
          (rk = "open" /\ pc["main"] \in {"init_ret", "running", "d_clear", "d_join"})

\* Consumer_dealloc has closed the client and not yet destroyed it: the
\* poller thread, which began one more poll after run_poller was cleared,
\* has returned and was joined.
C16_Witness ==
    /\ pc["main"] = "d_destroy_rk"
    /\ rk = "closed"
    /\ poller_thread = "joined"
    /\ pc["poller"] = "exited"
    /\ pollsAfterClear >= 1

\* message_queue_destroy has been entered, or has returned.
DestroyStarted ==
    InQueueDestroy \/ qprim = "destroyed" \/ pc["main"] = "d_free" \/ obj = "freed"

\* C17 (destroy is isolated): message_queue_destroy is never entered on a
\* queue that was destroyed before, and an initialized object that has been
\* freed had its queue destroyed; from the moment it is entered no thread is
\* inside message_queue_push or message_queue_pop, none is blocked in the
\* wait, and none enters later; and every message the poller thread has
\* received, those received after run_poller was cleared included, was
\* pushed before.
C17_DestroyIsolated ==
    /\ [](DestroyStarted =>
            /\ \A t \in Poppers : pc[t] = "idle"
            /\ ~PollerExecuting
            /\ waiting = {}
            /\ lock \in {NoThread, "main"}
            /\ pushLog = recvLog)
    /\ []((obj = "freed" /\ initResult = "ok") => qprim = "destroyed")
    /\ [][(pc'["main"] = "qd_lock" /\ pc["main"] /= "qd_lock") =>
             qprim /= "destroyed"]_vars
    /\ [][qprim' = "destroyed" =>
             (qprim = "destroyed" \/ (qprim = "init" /\ pc["main"] = "qd_prims"))]_vars

\* message_queue_destroy is in its loop on the queue of an initialized
\* object: the only message the poller thread received came after run_poller
\* was cleared; it was pushed, no pop took it, and it is in the queue.
C17_Witness ==
    /\ pc["main"] = "qd_loop"
    /\ initResult = "ok"
    /\ recvAfterClear
    /\ Len(recvLog) = 1 /\ pushLog = recvLog /\ popLog = <<>>
    /\ head /= NULL
    /\ pc["poller"] = "exited"

\* Thread t is between a pthread_mutex_lock (or the return of
\* pthread_cond_wait) and the pthread_mutex_unlock that follows it, on a
\* queue that was initialized: queue.c lines 36-49, 62-78, 92-100.
InCritical(t) ==
    /\ qprim = "init"
    /\ IF t = "main"
       THEN pc[t] \in {"qd_loop", "qd_unlock"}
       ELSE pc[t] \in {"push_link", "push_signal", "push_unlock",
                       "pop_test", "pop_unlink", "pop_unlock"}

\* A step writes head, tail, size or a node that is linked from head.
QueueWritten ==
    \/ head' /= head
    \/ tail' /= tail
    \/ size' /= size
    \/ \E n \in Range(Chain(head, MaxMsgs + 1)) : node'[n] /= node[n]

\* The thread that releases a record in a step that changes released: the
\* poller thread (consumer.c line 39) or message_queue_destroy (queue.c line 97).
Releaser == IF pc'["poller"] /= pc["poller"] THEN "poller" ELSE "main"

\* The threads that read or write the list are those that hold the lock, one
\* at most; a caller in the wait does not hold it; the poller thread does not
\* hold it in or around rd_kafka_consumer_poll.
LockHeldWhereUsed ==
    /\ \A t \in Threads : InCritical(t) <=> (qprim = "init" /\ lock = t)
    /\ Cardinality({t \in Threads : InCritical(t)}) <= 1
    /\ \A t \in Poppers : pc[t] \in {"pop_waiting", "pop_relock"} => lock /= t
    /\ waiting = {t \in Poppers : pc[t] = "pop_waiting"}
    /\ pc["poller"] \in {"while", "poll", "polling", "poll_check"} => lock /= "poller"

\* A step that writes the list of an initialized queue is a step of the
\* thread that holds the lock.
WrittenUnderLock ==
    (qprim = "init" /\ QueueWritten) =>
        /\ lock \in Threads
        /\ InCritical(lock)
        /\ \A t \in Threads \ {lock} : pc'[t] = pc[t]

\* C18 as stated (lock discipline): head, tail, size and the links are read
\* and written only by the thread that holds the lock, one thread at most
\* holds it, a caller in the wait does not, and no thread calls
\* rd_kafka_consumer_poll or releases a record while it holds the lock.
C18_LockDiscipline ==
    /\ []LockHeldWhereUsed
    /\ [][WrittenUnderLock]_vars
    /\ [][released' /= released => lock /= Releaser]_vars

\* C18 as amended: as stated, except for the releases of
\* message_queue_destroy: it releases the messages of the remaining nodes
\* while it holds the lock, at a time when no other thread is inside a call
\* on the queue; message_queue_push, message_queue_pop and the poller thread
\* release nothing and receive nothing while they hold it.
C18_LockDisciplineButDestroy ==
    /\ []LockHeldWhereUsed
    /\ [][WrittenUnderLock]_vars
    /\ [][released' /= released =>
             \/ lock /= Releaser
             \/ /\ Releaser = "main"
                /\ pc["main"] = "qd_loop"
                /\ \A t \in Poppers : pc[t] = "idle"
                /\ ~PollerExecuting]_vars

\* message_queue_destroy holds the lock of an initialized queue, has released
\* the message of one node and has another node still to go.
C18_Witness ==
    /\ pc["main"] = "qd_loop"
    /\ qprim = "init" /\ lock = "main"
    /\ \E m \in Msgs : ~merr[m] /\ m \in Range(pushLog) /\ released[m] = 1
    /\ head /= NULL

\* C19 (no lost wakeup): under weak fairness of the threads, whenever the
\* queue holds a node and a message_queue_pop is pending, a pop removes a
\* node in the end; never more pops return than pushes have linked nodes;
\* and again and again either no pop is pending or every pushed message has
\* been returned, so that with p pushes and at least p pops exactly p pops
\* return, whatever the order of pushes, signals, waits and spurious wakeups.
C19_NoLostWakeup ==
    /\ (head \in NodeIds /\ Pending /= {}) ~> (\E t \in Poppers : pc[t] = "pop_unlock")
    /\ [](Returned <= Len(popLog) /\ Len(popLog) <= Len(pushLog))
    /\ []<>(Pending = {} \/ Returned = Len(pushLog))

\* Two pushes, and three pops begun: each caller has returned from one pop
\* with a message, and the third pop is blocked in the wait on the queue
\* that is empty again.
C19_Witness ==
    /\ Len(pushLog) = 2
    /\ Returned = 2
    /\ ret["c1"] /= <<>> /\ ret["c2"] /= <<>>
    /\ \E t \in Poppers : pc[t] = "pop_waiting" /\ t \in waiting
    /\ head = NULL
    /\ \A p \in Producers : pc[p] = "idle"

====
